---- MODULE Spec2Model ----
(***************************************************************************)
(* A model of cmd/waveform (src/cmd/waveform/waveform.go): the command     *)
(* resolves its colour flags, validates -fn, accumulates standard input    *)
(* line by line until end-of-stream, decodes the buffered bytes as the     *)
(* JSON request envelope and renders every "waveform" request in turn.     *)
(*                                                                         *)
(* Strings that the program inspects character by character (the hex       *)
(* colour flags) are sequences of one-character strings.  Standard input   *)
(* is a sequence of lines; a line carries one element of the "requests"    *)
(* array, or only envelope punctuation/whitespace ("blank"), or bytes that *)
(* make the document syntactically invalid ("garbage").  The stream with   *)
(* no line at all is the empty input, which is not a JSON document.        *)
(***************************************************************************)
EXTENDS Integers, Sequences, FiniteSets, TLC

\* ---------------------------------------------------------------- bounds

\* Longest standard input, in lines.
MaxLines == 3

\* Longest colour flag value, in characters ("#" and six digits is 7).
MaxHexLen == 7

\* Extra bytes a larger image adds to the smallest TIFF the encoder writes.
MaxImageBytes == 3

\* ------------------------------------------------------- program constants

fnChecker == "checker"

fnFuzz == "fuzz"

fnGradient == "gradient"

fnSolid == "solid"

fnStripe == "stripe"

\* The checker period passed to waveform.CheckerColor.
CheckerSize == 10

\* tiff.Encode writes the 8-byte TIFF header before anything else, so a
\* successful encoding holds at least that many bytes.
TiffHeaderLen == 8

\* Default flag values.
DefaultBG == <<"#", "F", "F", "F", "F", "F", "F">>

DefaultFG == <<"#", "0", "0", "0", "0", "0", "0">>

DefaultAlt == <<>>

\* ------------------------------------------------------------- hexToRGB

HexDigitChars ==
  {"0", "1", "2", "3", "4", "5", "6", "7", "8", "9",
   "a", "b", "c", "d", "e", "f", "A", "B", "C", "D", "E", "F"}

\* The value strconv gives one digit character in base 16.
HexDigitVal(c) ==
  CASE c = "0" -> 0  [] c = "1" -> 1  [] c = "2" -> 2  [] c = "3" -> 3
    [] c = "4" -> 4  [] c = "5" -> 5  [] c = "6" -> 6  [] c = "7" -> 7
    [] c = "8" -> 8  [] c = "9" -> 9
    [] c \in {"a", "A"} -> 10 [] c \in {"b", "B"} -> 11
    [] c \in {"c", "C"} -> 12 [] c \in {"d", "D"} -> 13
    [] c \in {"e", "E"} -> 14 [] c \in {"f", "F"} -> 15

RECURSIVE HexFold(_, _)
HexFold(s, acc) ==
  IF s = <<>> THEN acc ELSE HexFold(Tail(s), acc * 16 + HexDigitVal(Head(s)))

RECURSIVE StripZeros(_)
StripZeros(s) ==
  IF s # <<>> /\ Head(s) = "0" THEN StripZeros(Tail(s)) ELSE s

\* strconv.ParseUint(s, 16, 32): no sign, no prefix and no underscore is
\* accepted in an explicit base; the value must fit 32 bits, that is eight
\* significant hex digits (hexToRGB only passes six characters).
ParseUint16(s) ==
  IF s = <<>> \/ \E i \in 1..Len(s) : s[i] \notin HexDigitChars
    THEN [val |-> 0, err |-> "ErrSyntax"]
    ELSE IF Len(StripZeros(s)) > 8
      THEN [val |-> -1, err |-> "ErrRange"]
      ELSE [val |-> HexFold(s, 0), err |-> "nil"]

\* A plausible slip: the 3-digit shorthand is padded, not duplicated.
hexToRGBPadded(h) ==
  LET h1 == IF Len(h) > 0 /\ h[1] = "#" THEN Tail(h) ELSE h
      h2 == IF Len(h1) = 3
              THEN <<h1[1], "0", h1[2], "0", h1[3], "0">>
              ELSE h1
      p  == ParseUint16(h2)
  IN  IF Len(h2) = 6 /\ p.err = "nil"
        THEN <<(p.val \div 65536) % 256, (p.val \div 256) % 256, p.val % 256>>
        ELSE <<0, 0, 0>>

hexToRGB(h) ==
  LET h1 == IF Len(h) > 0 /\ h[1] = "#" THEN Tail(h) ELSE h
      h2 == IF Len(h1) = 3
              THEN <<h1[1], h1[1], h1[2], h1[2], h1[3], h1[3]>>
              ELSE h1
      p  == ParseUint16(h2)
  IN  IF Len(h2) = 6 /\ p.err = "nil"
        THEN <<(p.val \div 65536) % 256, (p.val \div 256) % 256, p.val % 256>>
        ELSE <<0, 0, 0>>

\* color.RGBA{r, g, b, 255}
RGBA(t) == [R |-> t[1], G |-> t[2], B |-> t[3], A |-> 255]

\* The zero value of color.RGBA, which a variable holds before it is set.
ZeroColor == [R |-> 0, G |-> 0, B |-> 0, A |-> 0]

\* ---------------------------------------------------------------- state

VARIABLES
  strBGColor,   \* -bg
  strFGColor,   \* -fg
  strAltColor,  \* -alt
  strFn,        \* -fn
  bgColor, fgColor, altColor,  \* the resolved colours
  colorFn,      \* the ColorFunc selected from fnSet
  pc,           \* where main is: start, reading, processing, exited
  stdin,        \* the lines of standard input not read yet
  eofNewline,   \* whether the last line of standard input ends in '\n'
  nreads,       \* calls of reader.ReadString made so far
  err,          \* the error the last reader.ReadString returned
  buf,          \* bytes.Buffer: the lines accumulated so far
  decoded,      \* whether json.Unmarshal has run
  unmarshalErr, \* what json.Unmarshal returned (the program discards it)
  requests,     \* requests.Requests
  idx,          \* position of the range loop in requests.Requests
  nrendered,    \* calls of waveform.Generate made so far
  stdout,       \* what was written to standard output, in order
  stderr,       \* what the logger wrote to standard error
  exitCode      \* -1 while running; then the exit status

flags == <<strBGColor, strFGColor, strAltColor, strFn>>

colors == <<bgColor, fgColor, altColor, colorFn>>

input == <<stdin, eofNewline, nreads, err, buf>>

batch == <<decoded, unmarshalErr, requests, idx, nrendered>>

output == <<stdout, stderr, exitCode>>

vars == <<flags, colors, pc, input, batch, output>>

\* ------------------------------------------------------------ the inputs

\* A JSON value where the Request struct expects a string.
JStr(s) == [t |-> "string", v |-> s]

JNum == [t |-> "number", v |-> "7"]

\* A JSON value where the Request struct expects an array of strings; an
\* absent or null "params" leaves the slice nil.
JArr(a) == [t |-> "array", v |-> a]

JAbsent == [t |-> "absent", v |-> <<>>]

Elem(id, function, params) ==
  [kind |-> "elem", id |-> id, function |-> function, params |-> params]

Blank == [kind |-> "blank", id |-> JNum, function |-> JNum, params |-> JAbsent]

Garbage == [kind |-> "garbage", id |-> JNum, function |-> JNum, params |-> JAbsent]

\* The lines standard input is drawn from.  "good64" is a well-formed
\* base64 payload, "bad64" a corrupt one.
Lines ==
  { Elem(JStr("a"), JStr("waveform"), JArr(<<"good64">>)),
    Elem(JStr("b"), JStr("waveform"), JArr(<<"good64">>)),
    Elem(JStr("b"), JStr("waveform"), JArr(<<"bad64">>)),
    Elem(JStr("a"), JStr("other"), JArr(<<"good64">>)),
    Elem(JStr("a"), JStr("waveform"), JArr(<<>>)),
    Elem(JStr("b"), JStr("waveform"), JAbsent),
    Elem(JNum, JStr("waveform"), JArr(<<"good64">>)),
    Blank,
    Garbage }

SeqsUpTo(S, n) == UNION { [1..k -> S] : k \in 0..n }

\* The characters colour flags are drawn from: the prefix, digits of both
\* cases and of value zero, and a character that is no hex digit.
HexAlphabet == {"#", "0", "a", "F", "g"}

FnFlags == {fnChecker, fnFuzz, fnGradient, fnSolid, fnStripe, "unknown"}

\* ----------------------------------------------------------------- Init

Running ==
  /\ bgColor = ZeroColor /\ fgColor = ZeroColor /\ altColor = ZeroColor
  /\ colorFn = [kind |-> "nil"]
  /\ pc = "start"
  /\ nreads = 0
  /\ err = "nil"
  /\ buf = <<>>
  /\ decoded = FALSE
  /\ unmarshalErr = "unset"
  /\ requests = <<>>
  /\ idx = 0
  /\ nrendered = 0
  /\ stdout = <<>>
  /\ stderr = <<>>
  /\ exitCode = -1

\* The command with its default colours, any -fn and any standard input.
Init ==
  /\ strBGColor = DefaultBG
  /\ strFGColor = DefaultFG
  /\ strAltColor = DefaultAlt
  /\ strFn \in FnFlags
  /\ stdin \in SeqsUpTo(Lines, MaxLines)
  /\ eofNewline \in IF stdin = <<>> THEN {FALSE} ELSE BOOLEAN
  /\ Running

\* ------------------------------------------------------- flags to policy

\* A plausible slip: the alternate colour is always parsed from -alt.
ResolveAltParsed(fg, alt) == RGBA(hexToRGB(alt))

\* altColor := fgColor; if *strAltColor != "" { altColor = parsed }
ResolveAlt(fg, alt) == IF alt # <<>> THEN RGBA(hexToRGB(alt)) ELSE fg

\* fnSet, built from the resolved colours.
FnSet(fg, alt) ==
  (fnChecker :> [kind |-> fnChecker, fg |-> fg, alt |-> alt, size |-> CheckerSize])
  @@ (fnFuzz :> [kind |-> fnFuzz, fg |-> fg, alt |-> alt])
  @@ (fnGradient :> [kind |-> fnGradient, fg |-> fg, alt |-> alt])
  @@ (fnSolid :> [kind |-> fnSolid, fg |-> fg])
  @@ (fnStripe :> [kind |-> fnStripe, fg |-> fg, alt |-> alt])

\* A plausible slip: the result of the lookup is not checked.
LookupUnchecked(name) == TRUE

\* colorFn, ok := fnSet[*strFn]
LookupOk(name) == name \in DOMAIN FnSet(ZeroColor, ZeroColor)

\* main up to the validation of -fn: resolve the three colours, build
\* fnSet, and log.Fatalf (standard error, exit status 1) on an unknown name.
Startup ==
  /\ pc = "start"
  /\ LET bg  == RGBA(hexToRGB(strBGColor))
         fg  == RGBA(hexToRGB(strFGColor))
         alt == ResolveAlt(fg, strAltColor)
         set == FnSet(fg, alt)
     IN  /\ bgColor' = bg
         /\ fgColor' = fg
         /\ altColor' = alt
         /\ IF LookupOk(strFn)
              THEN /\ colorFn' = IF strFn \in DOMAIN set
                                   THEN set[strFn]
                                   ELSE [kind |-> "nil"]
                   /\ pc' = "reading"
                   /\ UNCHANGED <<stderr, exitCode>>
              ELSE /\ colorFn' = [kind |-> "nil"]
                   /\ pc' = "exited"
                   /\ stderr' = Append(stderr, "unknown function")
                   /\ exitCode' = 1
  /\ UNCHANGED <<flags, input, batch, stdout>>

\* ------------------------------------------------------ the batch codec

\* How encoding/json fills a string field: a JSON value of another type is
\* skipped (the field keeps its zero value) and reported at the end.
StringField(j) == IF j.t = "string" THEN j.v ELSE ""

DecodeElem(e) ==
  [Id |-> StringField(e.id),
   Function |-> StringField(e.function),
   Params |-> e.params.v]

WellTyped(e) == e.id.t = "string" /\ e.function.t = "string"

\* json.Unmarshal(buf.Bytes(), &requests).  The input is validated as a
\* whole first: on a syntax error nothing is stored.  A type mismatch is
\* remembered while decoding goes on, and returned once decoding is done.
Unmarshal(b) ==
  LET elems == SelectSeq(b, LAMBDA l : l.kind = "elem")
  IN  IF b = <<>> \/ \E i \in 1..Len(b) : b[i].kind = "garbage"
        THEN [err |-> "SyntaxError", Requests |-> <<>>]
        ELSE [err |-> IF \A i \in 1..Len(elems) : WellTyped(elems[i])
                        THEN "nil" ELSE "UnmarshalTypeError",
              Requests |-> [i \in 1..Len(elems) |-> DecodeElem(elems[i])]]

\* base64.StdEncoding.DecodeString: the bytes decoded before the first
\* corrupt character come back with the error.
DecodeString(p) ==
  IF p = "good64"
    THEN [bytes |-> "decoded", err |-> "nil"]
    ELSE [bytes |-> "decoded-prefix", err |-> "CorruptInputError"]

\* base64.StdEncoding.EncodeToString, as the length of the string it
\* returns for n bytes (padded to whole groups of four characters).
EncodeToString(n) == ((n + 2) \div 3) * 4

\* What waveform.Generate and tiff.Encode may answer for the decoded bytes.
\* The engine is an external library: any answer is possible for any bytes.
Generate(bytes) ==
  {"ok", "ErrFormat", "ErrInvalidData", "ErrUnexpectedEOS", "other", "tiff"}

knownErr == {"ErrFormat", "ErrInvalidData", "ErrUnexpectedEOS"}

\* The sizes of a TIFF image the encoder has written without error.
TiffLens == {TiffHeaderLen, TiffHeaderLen + MaxImageBytes}

\* A plausible slip: success is reported by an empty error string.
ResponseEmptyError(id, n) ==
  [id |-> id, result |-> EncodeToString(n), error |-> ""]

\* Response{request.Id, encodedString, "false"}; result is the length of
\* the base64 string.
SuccessResponse(id, n) ==
  [id |-> id, result |-> EncodeToString(n), error |-> "false"]

\* fmt.Println(string(b)) of the marshalled Responses value.
Document(rs) == [kind |-> "json", responses |-> rs]

\* fmt.Println(err.Error())
ErrorLine == [kind |-> "text", responses |-> <<>>]

\* ---------------------------------------------------------- reading stdin

\* reader.ReadString('\n') returns a whole line: it is appended to buf.
ReadLine ==
  /\ pc = "reading"
  /\ stdin # <<>>
  /\ Len(stdin) > 1 \/ eofNewline
  /\ nreads' = nreads + 1
  /\ err' = "nil"
  /\ buf' = Append(buf, Head(stdin))
  /\ stdin' = Tail(stdin)
  /\ UNCHANGED <<flags, colors, pc, eofNewline, batch, output>>

\* reader.ReadString('\n') returns io.EOF with what was left of the last
\* line: it is appended to buf and the whole buffer is decoded.
ReadEOF ==
  /\ pc = "reading"
  /\ stdin = <<>> \/ (Len(stdin) = 1 /\ ~eofNewline)
  /\ nreads' = nreads + 1
  /\ err' = "EOF"
  /\ buf' = buf \o stdin
  /\ stdin' = <<>>
  /\ decoded' = TRUE
  /\ unmarshalErr' = Unmarshal(buf').err
  /\ requests' = Unmarshal(buf').Requests
  /\ idx' = 1
  /\ pc' = "processing"
  /\ UNCHANGED <<flags, colors, eofNewline, nrendered, output>>

\* A plausible slip: a read error is handled like end-of-stream.
ReadErrorAsEOF ==
  /\ pc = "reading"
  /\ nreads' = nreads + 1
  /\ err' = "ErrRead"
  /\ decoded' = TRUE
  /\ unmarshalErr' = Unmarshal(buf).err
  /\ requests' = Unmarshal(buf).Requests
  /\ idx' = 1
  /\ pc' = "processing"
  /\ UNCHANGED <<flags, colors, stdin, eofNewline, buf, nrendered, output>>

\* reader.ReadString('\n') fails with another error, at any point of the
\* stream: the error text goes to standard output and the process exits 1.
ReadError ==
  /\ pc = "reading"
  /\ nreads' = nreads + 1
  /\ err' = "ErrRead"
  /\ stdout' = Append(stdout, ErrorLine)
  /\ exitCode' = 1
  /\ pc' = "exited"
  /\ UNCHANGED <<flags, colors, stdin, eofNewline, buf, batch, stderr>>

\* ------------------------------------------------------ the request loop

\* A plausible slip: the function name of a request is not looked at.
IsRenderAny(request) == TRUE

\* if request.Function == "waveform"
IsRender(request) == request.Function = "waveform"

\* One iteration of the loop over a request that is not a render request.
SkipRequest ==
  /\ pc = "processing"
  /\ idx <= Len(requests)
  /\ ~IsRender(requests[idx])
  /\ idx' = idx + 1
  /\ UNCHANGED <<flags, colors, pc, input, decoded, unmarshalErr, requests,
                 nrendered, output>>

\* One iteration of the loop over a render request.  request.Params[0]
\* panics on an empty slice; a known engine error is log.Fatal (exit 1);
\* any other engine error and a TIFF encoding error panic (exit 2).
RenderRequest ==
  /\ pc = "processing"
  /\ idx <= Len(requests)
  /\ IsRender(requests[idx])
  /\ LET request == requests[idx]
     IN  IF Len(request.Params) = 0
           THEN /\ stderr' = Append(stderr, "panic: index out of range")
                /\ exitCode' = 2
                /\ pc' = "exited"
                /\ UNCHANGED <<idx, nrendered, stdout>>
           ELSE \E outcome \in Generate(DecodeString(request.Params[1]).bytes) :
                  /\ nrendered' = nrendered + 1
                  /\ IF outcome = "ok"
                       THEN \E n \in TiffLens :
                              /\ stdout' = Append(stdout,
                                   Document(<<SuccessResponse(request.Id, n)>>))
                              /\ idx' = idx + 1
                              /\ UNCHANGED <<pc, stderr, exitCode>>
                       ELSE /\ stderr' = Append(stderr, outcome)
                            /\ exitCode' = IF outcome \in knownErr THEN 1 ELSE 2
                            /\ pc' = "exited"
                            /\ UNCHANGED <<idx, stdout>>
  /\ UNCHANGED <<flags, colors, input, decoded, unmarshalErr, requests>>

\* The loop is over: break, and main returns.
Return ==
  /\ pc = "processing"
  /\ idx > Len(requests)
  /\ pc' = "exited"
  /\ exitCode' = 0
  /\ UNCHANGED <<flags, colors, input, batch, stdout, stderr>>

\* ------------------------------------------------------ specifications

Next ==
  \/ Startup
  \/ ReadLine
  \/ ReadEOF
  \/ ReadError
  \/ SkipRequest
  \/ RenderRequest
  \/ Return

Spec == Init /\ [][Next]_vars

\* The colour flags drawn from every string over HexAlphabet up to
\* MaxHexLen characters, for the resolution of the colours alone.
InitHex ==
  /\ strBGColor = DefaultBG
  /\ strFGColor \in SeqsUpTo(HexAlphabet, MaxHexLen)
  /\ strAltColor \in {<<>>, <<"F", "0", "a">>}
  /\ strFn = fnStripe
  /\ stdin = <<>>
  /\ eofNewline = FALSE
  /\ Running

NextHex == Startup

SpecHex == InitHex /\ [][NextHex]_vars

\* ------------------------------------------------- vocabulary of the claims

RECURSIVE Entries(_)
\* The response entries written to standard output, in the order written.
Entries(out) ==
  IF out = <<>> THEN <<>> ELSE Head(out).responses \o Entries(Tail(out))

EmittedIds == [i \in 1..Len(Entries(stdout)) |-> Entries(stdout)[i].id]

Documents == SelectSeq(stdout, LAMBDA l : l.kind = "json")

\* The ids of the decoded requests whose function is "waveform", in order.
RenderIds(rs) ==
  LET sel == SelectSeq(rs, LAMBDA r : r.Function = "waveform")
  IN  [i \in 1..Len(sel) |-> sel[i].Id]

\* The same, read off the request elements of the input document.
RawRenderIds(b) ==
  LET sel == SelectSeq(b, LAMBDA l :
               l.kind = "elem" /\ l.function = [t |-> "string", v |-> "waveform"])
  IN  [i \in 1..Len(sel) |-> sel[i].id.v]

LowerDigits ==
  <<"0", "1", "2", "3", "4", "5", "6", "7", "8", "9", "a", "b", "c", "d", "e", "f">>

UpperDigits ==
  <<"0", "1", "2", "3", "4", "5", "6", "7", "8", "9", "A", "B", "C", "D", "E", "F">>

IsHexChar(c) == \E n \in 1..16 : c = LowerDigits[n] \/ c = UpperDigits[n]

DigitOf(c) == (CHOOSE n \in 1..16 : c = LowerDigits[n] \/ c = UpperDigits[n]) - 1

\* The standard hex-to-RGB expansion: an optional single "#", then 3 digits
\* (each duplicated: a digit d is the channel 17 * d) or 6 digits (two per
\* channel); anything else is black.
StandardRGB(h) ==
  LET body == IF h # <<>> /\ h[1] = "#" THEN SubSeq(h, 2, Len(h)) ELSE h
      d(i) == DigitOf(body[i])
  IN  IF \E i \in 1..Len(body) : ~IsHexChar(body[i])
        THEN <<0, 0, 0>>
        ELSE CASE Len(body) = 3 -> <<17 * d(1), 17 * d(2), 17 * d(3)>>
               [] Len(body) = 6 -> <<16 * d(1) + d(2), 16 * d(3) + d(4),
                                     16 * d(5) + d(6)>>
               [] OTHER -> <<0, 0, 0>>

Opaque(t) == [R |-> t[1], G |-> t[2], B |-> t[3], A |-> 255]

\* ------------------------------------------------------------- the claims

\* C1: a run that completes normally on a well-formed request document
\* writes exactly one JSON document to standard output, and its "responses"
\* array holds all the results of the batch (an empty array for a batch
\* with no render request).
C1OneDocument ==
  (pc = "exited" /\ exitCode = 0 /\ unmarshalErr = "nil") =>
    /\ Len(stdout) = 1
    /\ stdout[1].kind = "json"
    /\ Len(stdout[1].responses) = Len(RenderIds(requests))

\* C2: the ids of the emitted response entries are, in order and with
\* duplicates kept, the ids of the requests whose function is "waveform":
\* after each iteration of the loop for the requests gone through, on
\* normal completion for the whole batch, and for the ids as written in an
\* input document that decoded without error.
C2IdsInOrder ==
  decoded =>
    /\ EmittedIds = RenderIds(SubSeq(requests, 1, idx - 1))
    /\ exitCode = 0 => EmittedIds = RenderIds(requests)
    /\ (exitCode = 0 /\ unmarshalErr = "nil") => EmittedIds = RawRenderIds(buf)

\* C2 witness: a completed batch of three with a skipped request and a
\* repeated id.
C2Witness ==
  /\ exitCode = 0
  /\ unmarshalErr = "nil"
  /\ Len(requests) = 3
  /\ EmittedIds = <<"a", "a">>

\* C3: once the batch is decoded and the process has ended, every render
\* request (all of them with a payload) has its response entry, whether it
\* rendered or failed: a failure never cuts off the other requests.
C3Isolation ==
  ( /\ pc = "exited"
    /\ decoded
    /\ \A i \in 1..Len(requests) :
         requests[i].Function = "waveform" => Len(requests[i].Params) > 0 )
  => Len(Entries(stdout)) = Len(RenderIds(requests))

\* C4: when json.Unmarshal returns an error, the decoded request sequence
\* is empty, nothing is rendered, nothing is written and nothing panics.
C4DecodeFailureEmpty ==
  (decoded /\ unmarshalErr # "nil") =>
    /\ requests = <<>>
    /\ nrendered = 0
    /\ Entries(stdout) = <<>>
    /\ exitCode # 2

\* C5: with a -fn outside the five names, the process never gets past the
\* validation: no read of standard input, no decoding, no rendering,
\* nothing on standard output, and its only exit is the fatal one.
C5UnknownFnAborts ==
  strFn \notin {"checker", "fuzz", "gradient", "solid", "stripe"} =>
    /\ pc \in {"start", "exited"}
    /\ pc = "exited" => exitCode = 1
    /\ nreads = 0
    /\ ~decoded
    /\ nrendered = 0
    /\ stdout = <<>>

\* C5 witness: the process has aborted with input waiting on stdin.
C5Witness ==
  /\ strFn = "unknown"
  /\ pc = "exited"
  /\ stderr # <<>>
  /\ stdin # <<>>

\* C6: every response entry on standard output has a non-empty result and
\* the error string "false".
C6SuccessEntries ==
  \A i \in 1..Len(Entries(stdout)) :
    /\ Entries(stdout)[i].error = "false"
    /\ Entries(stdout)[i].result > 0

\* C6 witness: a batch completed with two entries written.
C6Witness == exitCode = 0 /\ Len(Entries(stdout)) = 2

\* C7: after a read error other than end-of-stream the process has exited
\* with status 1, standard output holds the error text and nothing else,
\* and nothing was decoded or rendered.
C7ReadErrorExits ==
  err = "ErrRead" =>
    /\ pc = "exited"
    /\ exitCode = 1
    /\ Len(stdout) = 1
    /\ stdout[1].kind = "text"
    /\ Documents = <<>>
    /\ ~decoded
    /\ requests = <<>>
    /\ nrendered = 0

\* C7 witness: the read fails with a render request already buffered.
C7Witness ==
  /\ err = "ErrRead"
  /\ buf # <<>>
  /\ buf[1].kind = "elem"
  /\ buf[1].function.v = "waveform"

\* C8: hexToRGB gives the standard expansion for an optional "#" followed
\* by exactly 3 or 6 hex digits, and black for every other string.
C8HexToRGB ==
  pc # "start" =>
    /\ fgColor = Opaque(StandardRGB(strFGColor))
    /\ bgColor = Opaque(StandardRGB(strBGColor))

\* C8 witness: the shorthand "#aF0" resolved to (170, 255, 0).
C8Witness ==
  /\ pc # "start"
  /\ strFGColor = <<"#", "a", "F", "0">>
  /\ fgColor = [R |-> 170, G |-> 255, B |-> 0, A |-> 255]

\* C9: with an empty -alt the alternate colour, as resolved and as handed
\* to the colour function, is the foreground colour; a non-empty -alt is
\* parsed.
C9AltDefaultsToFG ==
  pc # "start" =>
    /\ strAltColor = <<>> => altColor = fgColor /\ colorFn.alt = fgColor
    /\ strAltColor # <<>> =>
         altColor = Opaque(StandardRGB(strAltColor)) /\ colorFn.alt = altColor

\* C9 witness: -alt empty and a foreground that is neither black nor the
\* background.
C9Witness ==
  /\ pc # "start"
  /\ strAltColor = <<>>
  /\ altColor = [R |-> 255, G |-> 0, B |-> 170, A |-> 255]
  /\ altColor # bgColor

\* C10: a render request about to be processed has a first payload
\* element, so request.Params[0] is in bounds.
C10ParamsInBounds ==
  (pc = "processing" /\ idx <= Len(requests)
     /\ requests[idx].Function = "waveform") =>
    Len(requests[idx].Params) >= 1

====
